---- MODULE Spec2Model ----
(***************************************************************************)
(* ISO 7816-4 APDU framing (src/apdu.h): CommandApdu builds a command      *)
(* buffer with Lc/Le length fields, ResponseApdu is a read-only view over  *)
(* a received byte sequence.                                               *)
(*                                                                         *)
(* Three specifications share the module:                                  *)
(*   Spec      one CommandApdu: construct, fill the data region, destroy   *)
(*   SpecLife  several CommandApdu objects on a heap: construct, copy,     *)
(*             assign, fill, destroy (iterators are heap addresses)        *)
(*   SpecResp  a ResponseApdu over a caller-owned vector and its queries   *)
(***************************************************************************)
EXTENDS Integers, Naturals, Sequences, FiniteSets, TLC

VARIABLES
    phase,      \* Spec: "idle" (no object) or "built" (a CommandApdu exists)
    args,       \* Spec: the constructor arguments of the live object
    cmd,        \* Spec: the object: mCommand, mDataBegin, mDataEnd, and the
                \*       constructor's cursor `it` / out-of-bounds flag
    filled,     \* Spec: the caller has written the data region
    written,    \* Spec: the bytes the caller last wrote into the data region
    heap,       \* SpecLife: heap blocks, each free or a vector's storage
    objs,       \* SpecLife: the CommandApdu objects
    crashed,    \* SpecLife: a write through a dangling iterator faulted
    mData,      \* SpecResp: the caller's vector the ResponseApdu refers to
    viewed,     \* SpecResp: a ResponseApdu wraps mData
    last        \* SpecResp: the last query and the value it returned

vars == <<phase, args, cmd, filled, written, heap, objs, crashed, mData, viewed, last>>

builderVars == <<phase, args, cmd, filled, written>>
lifeVars == <<heap, objs, crashed>>
respVars == <<mData, viewed, last>>

----------------------------------------------------------------------------
(* Bounds of the model *)

\* lengths 0..MaxSmallLc are enumerated, and data of such a length is arbitrary
MaxSmallLc == 2
\* expected lengths 0..MaxSmallLe are enumerated
MaxSmallLe == 2

----------------------------------------------------------------------------
(* Program constants of the constructor *)

headerSize == 4
shortLcMax == 255
shortLeMax == 256
extendedLeMax == 65536

\* conversion of a size_t / int expression to uint8_t
U8(x) == x % 256

\* a function on 1..n as a sequence value (a std::vector's elements in order)
Vec(f) == f \o <<>>

\* a default-constructed (singular) vector iterator
NullIt == -1

----------------------------------------------------------------------------
(* CommandApdu::CommandApdu(cla, ins, p1, p2, lc, le) *)

extended(lc, le) == lc > shortLcMax \/ le > shortLeMax
hasLc(lc) == lc > 0
hasLe(le) == le > 0

lcSize(lc, le) == IF hasLc(lc) THEN (IF extended(lc, le) THEN 3 ELSE 1) ELSE 0

leSize_noFiller(lc, le) ==
    IF hasLe(le) THEN (IF extended(lc, le) THEN 2 ELSE 1) ELSE 0

leSize(lc, le) ==
    IF hasLe(le)
    THEN (IF extended(lc, le) THEN (IF hasLc(lc) THEN 2 ELSE 3) ELSE 1)
    ELSE 0

commandSize(lc, le) == headerSize + lcSize(lc, le) + lc + leSize(lc, le)

\* mCommand.resize(commandSize, 0); auto it = mCommand.begin();
\* iterators are offsets from mCommand.begin(); oob records a write or an
\* advance of the cursor beyond mCommand.end()
Allocate(lc, le) ==
    [mCommand   |-> Vec([i \in 1..commandSize(lc, le) |-> 0]),
     mDataBegin |-> NullIt,
     mDataEnd   |-> NullIt,
     it         |-> 0,
     oob        |-> FALSE]

\* *it++ = b
Put(s, b) ==
    IF s.it < Len(s.mCommand)
    THEN [s EXCEPT !.mCommand[s.it + 1] = U8(b), !.it = s.it + 1]
    ELSE [s EXCEPT !.oob = TRUE, !.it = s.it + 1]

\* it += n
Advance(s, n) ==
    [s EXCEPT !.it = s.it + n,
              !.oob = s.oob \/ (s.it + n > Len(s.mCommand))]

WriteHeader(s, cla, ins, p1, p2) == Put(Put(Put(Put(s, cla), ins), p1), p2)

WriteLc_dataAtCursor(s, lc, le) ==
    IF hasLc(lc)
    THEN LET a == IF extended(lc, le) THEN Put(Put(s, 0), U8(lc \div 256)) ELSE s
             b == Put(a, U8(lc))
             c == Advance(b, lc)
         IN  [c EXCEPT !.mDataBegin = b.it, !.mDataEnd = c.it]
    ELSE [s EXCEPT !.mDataBegin = s.it, !.mDataEnd = s.it]

WriteLc_lowByteFirst(s, lc, le) ==
    IF hasLc(lc)
    THEN LET a == IF extended(lc, le) THEN Put(Put(s, 0), U8(lc)) ELSE s
             b == Put(a, U8(lc \div 256))
             c == Advance(b, lc)
         IN  [c EXCEPT !.mDataBegin = b.it, !.mDataEnd = c.it]
    ELSE [s EXCEPT !.mDataBegin = Len(s.mCommand), !.mDataEnd = Len(s.mCommand)]

WriteLc_beginBeforeLength(s, lc, le) ==
    IF hasLc(lc)
    THEN LET a == IF extended(lc, le) THEN Put(Put(s, 0), U8(lc \div 256)) ELSE s
             b == Put(a, U8(lc))
             c == Advance(b, lc)
         IN  [c EXCEPT !.mDataBegin = a.it, !.mDataEnd = c.it - 1]
    ELSE [s EXCEPT !.mDataBegin = Len(s.mCommand), !.mDataEnd = Len(s.mCommand)]

\* Cases 3 & 4 send data
WriteLc(s, lc, le) ==
    IF hasLc(lc)
    THEN LET a == IF extended(lc, le) THEN Put(Put(s, 0), U8(lc \div 256)) ELSE s
             b == Put(a, U8(lc))
             c == Advance(b, lc)
         IN  [c EXCEPT !.mDataBegin = b.it, !.mDataEnd = c.it]
    ELSE [s EXCEPT !.mDataBegin = Len(s.mCommand), !.mDataEnd = Len(s.mCommand)]

WriteLe_littleEndian(s, lc, le) ==
    IF hasLe(le)
    THEN IF extended(lc, le)
         THEN LET a == IF ~hasLc(lc) THEN Put(s, 0) ELSE s
                  isLeMax == le = extendedLeMax
                  b == Put(a, IF isLeMax THEN 0 ELSE U8(le))
              IN  Put(b, IF isLeMax THEN 0 ELSE U8(le \div 256))
         ELSE Put(s, IF le = shortLeMax THEN 0 ELSE U8(le))
    ELSE s

\* Cases 2 & 4 expect data back
WriteLe(s, lc, le) ==
    IF hasLe(le)
    THEN IF extended(lc, le)
         THEN LET a == IF ~hasLc(lc) THEN Put(s, 0) ELSE s
                  isLeMax == le = extendedLeMax
                  b == Put(a, IF isLeMax THEN 0 ELSE U8(le \div 256))
              IN  Put(b, IF isLeMax THEN 0 ELSE U8(le))
         ELSE Put(s, IF le = shortLeMax THEN 0 ELSE U8(le))
    ELSE s

CommandApdu(cla, ins, p1, p2, lc, le) ==
    WriteLe(WriteLc(WriteHeader(Allocate(lc, le), cla, ins, p1, p2), lc, le), lc, le)

\* CommandApdu(cla, ins, p1, p2) : CommandApdu(cla, ins, p1, p2, 0, 0)
CommandApdu4(cla, ins, p1, p2) == CommandApdu(cla, ins, p1, p2, 0, 0)

----------------------------------------------------------------------------
(* Accessors of CommandApdu, on an object record c *)

size(c) == Len(c.mCommand)
end(c) == Len(c.mCommand)
dataBegin(c) == c.mDataBegin
dataEnd(c) == c.mDataEnd
\* std::distance(mDataBegin, mDataEnd)
dataSize(c) == c.mDataEnd - c.mDataBegin

\* the caller's std::copy(d.begin(), d.end(), dataBegin()): buf with the bytes
\* of d stored at offsets first, first+1, ... (stores beyond the end are lost)
StoreAt(buf, first, d) ==
    LET n == Len(d)
    IN  Vec([i \in 1..Len(buf) |->
                IF i > first /\ i <= first + n THEN d[i - first] ELSE buf[i]])

\* the caller reading [dataBegin(), dataEnd()) back
ReadData(c) == SubSeq(c.mCommand, c.mDataBegin + 1, c.mDataEnd)

----------------------------------------------------------------------------
(* Inputs of Spec *)

Headers == { <<0, 164, 4, 0>>, <<255, 1, 128, 127>> }

LcValues == (0..MaxSmallLc) \cup {254, 255, 256, 257, 300, 65535, 65536}
LeValues == (0..MaxSmallLe) \cup {255, 256, 257, 258, 4660, 65535, 65536, 65537}

FillBytes == {0, 63, 255}

\* the byte sequences a caller writes into a data region of n bytes: every
\* sequence over FillBytes for a small n, counting patterns for a large one
DataChoices(n) ==
    IF n <= MaxSmallLc
    THEN { Vec(f) : f \in [1..n -> FillBytes] }
    ELSE { Vec([i \in 1..n |-> (b + i) % 256]) : b \in FillBytes }

NoArgs == [cla |-> 0, ins |-> 0, p1 |-> 0, p2 |-> 0, lc |-> 0, le |-> 0]
NoCmd == [mCommand |-> <<>>, mDataBegin |-> NullIt, mDataEnd |-> NullIt,
          it |-> 0, oob |-> FALSE]

----------------------------------------------------------------------------
(* Spec: one CommandApdu *)

BuilderInit ==
    /\ phase = "idle"
    /\ args = NoArgs
    /\ cmd = NoCmd
    /\ filled = FALSE
    /\ written = <<>>

Construct(h, lc, le) ==
    /\ phase = "idle"
    /\ phase' = "built"
    /\ args' = [cla |-> h[1], ins |-> h[2], p1 |-> h[3], p2 |-> h[4],
                lc |-> lc, le |-> le]
    /\ cmd' = CommandApdu(h[1], h[2], h[3], h[4], lc, le)
    /\ filled' = FALSE
    /\ written' = <<>>
    /\ UNCHANGED <<lifeVars, respVars>>

Construct4(h) ==
    /\ phase = "idle"
    /\ phase' = "built"
    /\ args' = [cla |-> h[1], ins |-> h[2], p1 |-> h[3], p2 |-> h[4],
                lc |-> 0, le |-> 0]
    /\ cmd' = CommandApdu4(h[1], h[2], h[3], h[4])
    /\ filled' = FALSE
    /\ written' = <<>>
    /\ UNCHANGED <<lifeVars, respVars>>

\* the caller fills [dataBegin(), dataEnd()) with d
FillData(d) ==
    /\ phase = "built"
    /\ Len(d) = dataSize(cmd)
    /\ cmd' = [cmd EXCEPT !.mCommand = StoreAt(cmd.mCommand, dataBegin(cmd), d)]
    /\ filled' = TRUE
    /\ written' = d
    /\ UNCHANGED <<phase, args, lifeVars, respVars>>

\* ~CommandApdu()
Destroy ==
    /\ phase = "built"
    /\ phase' = "idle"
    /\ args' = NoArgs
    /\ cmd' = NoCmd
    /\ filled' = FALSE
    /\ written' = <<>>
    /\ UNCHANGED <<lifeVars, respVars>>

LifeIdle == heap = <<>> /\ objs = <<>> /\ crashed = FALSE
RespIdle == mData = <<>> /\ viewed = FALSE /\ last = [op |-> "none", val |-> 0]

Init == BuilderInit /\ LifeIdle /\ RespIdle

Next ==
    \/ \E h \in Headers, lc \in LcValues, le \in LeValues : Construct(h, lc, le)
    \/ \E h \in Headers : Construct4(h)
    \/ \E d \in DataChoices(IF dataSize(cmd) >= 0 THEN dataSize(cmd) ELSE 0) : FillData(d)
    \/ Destroy

Spec == Init /\ [][Next]_vars

----------------------------------------------------------------------------
(* SpecLife: CommandApdu objects and their vectors' storage on a heap.     *)
(* A vector iterator is the address of an element: a heap block and an     *)
(* offset in it.  The class declares no copy operation, so copying is      *)
(* member-wise: the vector is copied into storage of its own, the two      *)
(* iterators are copied as they are.                                       *)

\* bounds: the number of objects and of heap blocks
MaxObjs == 2
MaxBlocks == 3

Objs == 1..MaxObjs
Addrs == 1..MaxBlocks

LifeHeaders == { <<0, 164, 4, 0>> }
LifeLc == 0..MaxSmallLc
LifeLe == {0, 256}
LifeBytes == {63, 255}

FreeBlock == [used |-> FALSE, cap |-> 0, bytes |-> <<>>]
NullPtr == [blk |-> 0, off |-> 0]
DeadObj == [live |-> FALSE, buf |-> 0, mDataBegin |-> NullPtr, mDataEnd |-> NullPtr]

LifeInit ==
    /\ heap = [a \in Addrs |-> FreeBlock]
    /\ objs = [o \in Objs |-> DeadObj]
    /\ crashed = FALSE

\* CommandApdu(cla, ins, p1, p2, lc, le) into object o, its vector allocated at a
LConstruct(o, a, h, lc, le) ==
    /\ ~crashed
    /\ ~objs[o].live
    /\ ~heap[a].used
    /\ LET c == CommandApdu(h[1], h[2], h[3], h[4], lc, le)
       IN  /\ heap' = [heap EXCEPT ![a] =
                         [used |-> TRUE, cap |-> Len(c.mCommand), bytes |-> c.mCommand]]
           /\ objs' = [objs EXCEPT ![o] =
                         [live |-> TRUE, buf |-> a,
                          mDataBegin |-> [blk |-> a, off |-> c.mDataBegin],
                          mDataEnd   |-> [blk |-> a, off |-> c.mDataEnd]]]
    /\ UNCHANGED <<crashed, builderVars, respVars>>

\* CommandApdu o(src): the implicit copy constructor
CopyConstruct(o, src, a) ==
    /\ ~crashed
    /\ ~objs[o].live
    /\ objs[src].live
    /\ ~heap[a].used
    /\ heap' = [heap EXCEPT ![a] =
                  [used |-> TRUE, cap |-> Len(heap[objs[src].buf].bytes),
                   bytes |-> heap[objs[src].buf].bytes]]
    /\ objs' = [objs EXCEPT ![o] =
                  [live |-> TRUE, buf |-> a,
                   mDataBegin |-> objs[src].mDataBegin,
                   mDataEnd   |-> objs[src].mDataEnd]]
    /\ UNCHANGED <<crashed, builderVars, respVars>>

\* dst = src: the implicit copy assignment; the vector keeps its storage when
\* its capacity suffices and moves to block a otherwise
CopyAssign(dst, src, a) ==
    /\ ~crashed
    /\ objs[dst].live
    /\ objs[src].live
    /\ LET from == heap[objs[src].buf].bytes
           old == objs[dst].buf
           fits == Len(from) <= heap[old].cap
       IN  IF dst = src
           THEN UNCHANGED <<heap, objs>>
           ELSE /\ fits \/ ~heap[a].used
                /\ heap' = IF fits
                           THEN [heap EXCEPT ![old].bytes = from]
                           ELSE [heap EXCEPT ![old] = FreeBlock,
                                             ![a] = [used |-> TRUE, cap |-> Len(from),
                                                     bytes |-> from]]
                /\ objs' = [objs EXCEPT ![dst] =
                              [live |-> TRUE, buf |-> IF fits THEN old ELSE a,
                               mDataBegin |-> objs[src].mDataBegin,
                               mDataEnd   |-> objs[src].mDataEnd]]
    /\ UNCHANGED <<crashed, builderVars, respVars>>

\* std::distance(mDataBegin, mDataEnd) of object o
LDataSize(o) == objs[o].mDataEnd.off - objs[o].mDataBegin.off

\* the iterators of o designate elements of a vector that exists
Dereferenceable(o) ==
    /\ objs[o].mDataBegin.blk \in Addrs
    /\ heap[objs[o].mDataBegin.blk].used
    /\ objs[o].mDataBegin.off >= 0
    /\ objs[o].mDataEnd.off <= Len(heap[objs[o].mDataBegin.blk].bytes)

\* the caller fills [o.dataBegin(), o.dataEnd()) with d: the bytes go where the
\* iterators point.  Through a dangling iterator the store is undefined: it is
\* lost, lands in whatever occupies the block now, or faults.
LFill(o, d, fault) ==
    /\ ~crashed
    /\ objs[o].live
    /\ LDataSize(o) > 0
    /\ Len(d) = LDataSize(o)
    /\ LET p == objs[o].mDataBegin
       IN  IF Dereferenceable(o)
           THEN /\ ~fault
                /\ heap' = [heap EXCEPT ![p.blk].bytes = StoreAt(@, p.off, d)]
                /\ crashed' = FALSE
           ELSE /\ crashed' = fault
                /\ \/ UNCHANGED heap
                   \/ /\ ~fault
                      /\ heap[p.blk].used
                      /\ heap' = [heap EXCEPT ![p.blk].bytes = StoreAt(@, p.off, d)]
    /\ UNCHANGED <<objs, builderVars, respVars>>

\* ~CommandApdu() of object o: its vector's storage is released
LDestroy(o) ==
    /\ ~crashed
    /\ objs[o].live
    /\ heap' = [heap EXCEPT ![objs[o].buf] = FreeBlock]
    /\ objs' = [objs EXCEPT ![o] = DeadObj]
    /\ UNCHANGED <<crashed, builderVars, respVars>>

LifeDataChoices(n) == { Vec(f) : f \in [1..n -> LifeBytes] }

InitLife == BuilderInit /\ LifeInit /\ RespIdle

NextLife ==
    \/ \E o \in Objs, a \in Addrs, h \in LifeHeaders, lc \in LifeLc, le \in LifeLe :
          LConstruct(o, a, h, lc, le)
    \/ \E o \in Objs, src \in Objs, a \in Addrs : CopyConstruct(o, src, a)
    \/ \E dst \in Objs, src \in Objs, a \in Addrs : CopyAssign(dst, src, a)
    \/ \E o \in Objs, fault \in BOOLEAN :
          \E d \in LifeDataChoices(IF objs[o].live /\ LDataSize(o) > 0
                                   THEN LDataSize(o) ELSE 0) : LFill(o, d, fault)
    \/ \E o \in Objs : LDestroy(o)

SpecLife == InitLife /\ [][NextLife]_vars

----------------------------------------------------------------------------
(* ResponseApdu: a view over the caller's vector v (mData).  An iterator   *)
(* is an offset from std::begin(mData).                                    *)

STATUS_SIZE == 2
BYTES_AVAILABLE == 97
SW1_WARNING_NON_VOLATILE_MEMORY_UNCHANGED == 98
SW1_WARNING_NON_VOLATILE_MEMORY_CHANGED == 99
SW1_FIRST_EXECUTION_ERROR == 100
SW1_LAST_EXECUTION_ERROR == 102
SW1_FIRST_CHECKING_ERROR == 103
SW1_LAST_CHECKING_ERROR == 111

\* conversion to int8_t (two's complement)
I8(x) == IF x % 256 >= 128 THEN (x % 256) - 256 ELSE x % 256
\* conversion to uint16_t
U16(x) == x % 65536

ok(v) == Len(v) >= STATUS_SIZE

\* *(std::end(mData) - 2); on a vector shorter than that the read is outside
\* the vector and yields the byte g that happens to be there
sw1(v, g) == IF Len(v) >= 2 THEN v[Len(v) - 1] ELSE g[1]

\* *(std::end(mData) - 1)
sw2(v, g) == IF Len(v) >= 1 THEN v[Len(v)] ELSE g[2]

status(v, g) == U16(sw1(v, g) * 256 + sw2(v, g))

remainingBytes(v, g) == I8(IF sw1(v, g) = BYTES_AVAILABLE THEN sw2(v, g) ELSE 0)

isWarning(v, g) ==
    \/ sw1(v, g) = SW1_WARNING_NON_VOLATILE_MEMORY_UNCHANGED
    \/ sw1(v, g) = SW1_WARNING_NON_VOLATILE_MEMORY_CHANGED

isExecutionError(v, g) ==
    sw1(v, g) >= SW1_FIRST_EXECUTION_ERROR /\ sw1(v, g) <= SW1_LAST_EXECUTION_ERROR

isCheckingError_exclusiveLast(v, g) ==
    sw1(v, g) >= SW1_FIRST_CHECKING_ERROR /\ sw1(v, g) < SW1_LAST_CHECKING_ERROR

isCheckingError(v, g) ==
    sw1(v, g) >= SW1_FIRST_CHECKING_ERROR /\ sw1(v, g) <= SW1_LAST_CHECKING_ERROR

isError(v, g) == isExecutionError(v, g) \/ isCheckingError(v, g)

rDataBegin(v) == 0

rDataEnd_keepsSw1(v) == Len(v) - 1

\* std::end(mData) - STATUS_SIZE
rDataEnd(v) == Len(v) - STATUS_SIZE

\* std::distance(dataBegin(), dataEnd())
rDataSize(v) == rDataEnd(v) - rDataBegin(v)

\* the caller reading [dataBegin(), dataEnd())
rData(v) == SubSeq(v, rDataBegin(v) + 1, rDataEnd(v))

----------------------------------------------------------------------------
(* SpecResp: a caller receives a byte sequence, wraps it and queries it *)

\* bound: the longest payload before the status word
MaxPayload == 2

Sw1Values == 0..255
Sw2Values == {0, 5, 127, 128, 130, 255}
\* the bytes in front of a vector that is too short, as a read of them may
\* find; nothing outside the vector is read when it has a status word
Garbage(v) == IF Len(v) >= 2 THEN { <<0, 0>> } ELSE { <<0, 0>>, <<97, 255>>, <<144, 0>> }

\* payloads <<>>, <<1>>, <<1, 2>>, ...
Payloads == { [i \in 1..n |-> i] : n \in 0..MaxPayload }
Responses ==
    { Vec(p) \o <<a, b>> : p \in Payloads, a \in Sw1Values, b \in Sw2Values }
        \cup { <<>>, <<0>>, <<97>> }

NoQuery == [op |-> "none", val |-> 0]

RespInit ==
    /\ mData = <<>>
    /\ viewed = FALSE
    /\ last = NoQuery

\* ResponseApdu(data) over the bytes the transport delivered
Receive(bytes) ==
    /\ ~viewed
    /\ mData' = bytes
    /\ viewed' = TRUE
    /\ last' = NoQuery
    /\ UNCHANGED <<builderVars, lifeVars>>

Answer(op, val) ==
    /\ viewed
    /\ last' = [op |-> op, val |-> val]
    /\ UNCHANGED <<mData, viewed, builderVars, lifeVars>>

QOk == Answer("ok", ok(mData))
QSw1(g) == Answer("sw1", sw1(mData, g))
QSw2(g) == Answer("sw2", sw2(mData, g))
QStatus(g) == Answer("status", status(mData, g))
QRemainingBytes(g) == Answer("remainingBytes", remainingBytes(mData, g))
QIsWarning(g) == Answer("isWarning", isWarning(mData, g))
QIsExecutionError(g) == Answer("isExecutionError", isExecutionError(mData, g))
QIsCheckingError(g) == Answer("isCheckingError", isCheckingError(mData, g))
QIsError(g) == Answer("isError", isError(mData, g))
QDataBegin == Answer("dataBegin", rDataBegin(mData))
\* std::end(mData) - 2 and the size_t distance to it are taken only of a
\* vector that has a status word: callers check ok() first
QDataEnd == ok(mData) /\ Answer("dataEnd", rDataEnd(mData))
QDataSize == ok(mData) /\ Answer("dataSize", rDataSize(mData))

\* the view and the vector go out of scope
Release ==
    /\ viewed
    /\ mData' = <<>>
    /\ viewed' = FALSE
    /\ last' = NoQuery
    /\ UNCHANGED <<builderVars, lifeVars>>

InitResp == BuilderInit /\ LifeIdle /\ RespInit

NextResp ==
    \/ \E bytes \in Responses : Receive(bytes)
    \/ QOk
    \/ \E g \in Garbage(mData) : QSw1(g)
    \/ \E g \in Garbage(mData) : QSw2(g)
    \/ \E g \in Garbage(mData) : QStatus(g)
    \/ \E g \in Garbage(mData) : QRemainingBytes(g)
    \/ \E g \in Garbage(mData) : QIsWarning(g)
    \/ \E g \in Garbage(mData) : QIsExecutionError(g)
    \/ \E g \in Garbage(mData) : QIsCheckingError(g)
    \/ \E g \in Garbage(mData) : QIsError(g)
    \/ QDataBegin
    \/ QDataEnd
    \/ QDataSize
    \/ Release

SpecResp == InitResp /\ [][NextResp]_vars

----------------------------------------------------------------------------
(* Properties of CommandApdu, checked under Spec *)

\* the arguments are within the range the wire format represents
InRange == args.lc <= 65535 /\ args.le <= 65536

\* the header bytes the constructor was given
GivenHeader == <<args.cla, args.ins, args.p1, args.p2>>

\* C1: for Lc in 0..65535 and Le in 0..65536 the buffer's size is
\* 4 + lcSize + Lc + leSize with extended = (Lc > 255 or Le > 256),
\* lcSize = 0 / 1 / 3 and leSize = 0 / 1 / 2 / 3 as the command form says; the
\* constructor's cursor never passes the end of the buffer and finishes at it.
C1_SizeAndCursor ==
    (phase = "built" /\ InRange) =>
        LET ext == args.lc > 255 \/ args.le > 256
            lcS == IF args.lc = 0 THEN 0 ELSE IF ext THEN 3 ELSE 1
            leS == IF args.le = 0 THEN 0
                   ELSE IF ~ext THEN 1 ELSE IF args.lc > 0 THEN 2 ELSE 3
        IN  /\ size(cmd) = 4 + lcS + args.lc + leS
            /\ ~cmd.oob
            /\ cmd.it = size(cmd)

\* a short Lc together with an extended Le: both fields take the extended form
C1_Witness ==
    /\ phase = "built"
    /\ args.lc = 2 /\ args.le = 257
    /\ size(cmd) = 11
    /\ cmd.it = 11

\* C2: for Le in 1..65536 the Le field is the last bytes of the command: one
\* byte Le mod 256 in short form; in extended form two bytes big-endian
\* Le mod 65536, preceded by one 0x00 filler iff Lc = 0; for Le = 0 no Le byte
\* is written.
C2_LeField ==
    (phase = "built" /\ InRange) =>
        LET ext == args.lc > 255 \/ args.le > 256
            n == size(cmd)
            body == 4 + (IF args.lc = 0 THEN 0 ELSE IF ext THEN 3 ELSE 1) + args.lc
        IN  IF args.le = 0 THEN n = body
            ELSE IF ~ext THEN /\ n = body + 1
                              /\ cmd.mCommand[n] = args.le % 256
            ELSE /\ cmd.mCommand[n - 1] = (args.le % 65536) \div 256
                 /\ cmd.mCommand[n] = args.le % 256
                 /\ IF args.lc = 0
                    THEN n = body + 3 /\ cmd.mCommand[n - 2] = 0
                    ELSE n = body + 2

\* an extended Le of 0x1234 without data: filler, then 0x12 0x34
C2_Witness ==
    /\ phase = "built"
    /\ args.lc = 0 /\ args.le = 4660
    /\ SubSeq(cmd.mCommand, 5, 7) = <<0, 18, 52>>

\* C3: for Lc in 1..65535 the Lc field starts at offset 4: one byte Lc in
\* short form, the three bytes 0x00, Lc >> 8, Lc & 0xFF in extended form (also
\* when Lc <= 255 and Le > 256); for Lc = 0 no Lc byte is written.
C3_LcField ==
    (phase = "built" /\ InRange) =>
        LET ext == args.lc > 255 \/ args.le > 256
            leS == IF args.le = 0 THEN 0
                   ELSE IF ~ext THEN 1 ELSE IF args.lc > 0 THEN 2 ELSE 3
        IN  IF args.lc = 0 THEN size(cmd) = 4 + leS
            ELSE IF ~ext THEN /\ cmd.mCommand[5] = args.lc
                              /\ dataBegin(cmd) = 5
            ELSE /\ SubSeq(cmd.mCommand, 5, 7) =
                        <<0, args.lc \div 256, args.lc % 256>>
                 /\ dataBegin(cmd) = 7

\* Lc = 300 is sent as 0x00 0x01 0x2C
C3_Witness ==
    /\ phase = "built"
    /\ args.lc = 300
    /\ SubSeq(cmd.mCommand, 5, 7) = <<0, 1, 44>>

\* C4: after the caller wrote d (Lc bytes) through [dataBegin(), dataEnd()),
\* reading the region back yields d, and the buffer is
\* header ++ LcField ++ d ++ LeField: size, header and both length fields are
\* as the constructor left them.
C4_FillRoundTrip ==
    (phase = "built" /\ filled /\ InRange) =>
        LET ext == args.lc > 255 \/ args.le > 256
            lcField == IF args.lc = 0 THEN <<>>
                       ELSE IF ext THEN <<0, args.lc \div 256, args.lc % 256>>
                       ELSE <<args.lc>>
            le2 == <<(args.le % 65536) \div 256, args.le % 256>>
            leField == IF args.le = 0 THEN <<>>
                       ELSE IF ~ext THEN <<args.le % 256>>
                       ELSE IF args.lc = 0 THEN <<0>> \o le2 ELSE le2
        IN  /\ Len(written) = args.lc
            /\ ReadData(cmd) = written
            /\ cmd.mCommand = GivenHeader \o lcField \o written \o leField

\* SELECT with Lc = 2, Le = 256 and data 3F 00
C4_Witness ==
    /\ phase = "built" /\ filled
    /\ GivenHeader = <<0, 164, 4, 0>>
    /\ args.lc = 2 /\ args.le = 256
    /\ written = <<63, 0>>
    /\ cmd.mCommand = <<0, 164, 4, 0, 2, 63, 0, 0>>

\* C5: after construction, if Lc > 0 then dataBegin() is at offset 4 + lcSize
\* (5 short, 7 extended), dataEnd() - dataBegin() = dataSize() = Lc,
\* dataEnd() <= end() and the data region is all 0x00 until the caller writes
\* it; if Lc = 0 then dataBegin() = dataEnd() = end() and dataSize() = 0.
C5_DataRegion ==
    (phase = "built" /\ InRange) =>
        LET ext == args.lc > 255 \/ args.le > 256
        IN  IF args.lc > 0
            THEN /\ dataBegin(cmd) = (IF ext THEN 7 ELSE 5)
                 /\ dataEnd(cmd) - dataBegin(cmd) = args.lc
                 /\ dataSize(cmd) = args.lc
                 /\ dataEnd(cmd) <= end(cmd)
                 /\ ~filled =>
                       \A i \in (dataBegin(cmd) + 1)..dataEnd(cmd) : cmd.mCommand[i] = 0
            ELSE /\ dataBegin(cmd) = end(cmd)
                 /\ dataEnd(cmd) = end(cmd)
                 /\ dataSize(cmd) = 0

\* no data but an extended Le: the empty data range lies behind the Le field
C5_Witness ==
    /\ phase = "built"
    /\ args.lc = 0 /\ args.le = 257
    /\ dataBegin(cmd) = 7 /\ dataEnd(cmd) = 7 /\ end(cmd) = 7

\* C10: a command with Lc > 65535 or Le > 65536 is rejected (no buffer is
\* produced) or saturated (its length field carries the largest value the
\* field represents), never built with the low 16 bits of the value; and a
\* command within the range is built.
C10_OutOfRangeRejectedOrSaturated ==
    phase = "built" =>
        LET n == size(cmd)
        IN  /\ InRange => n >= 4
            /\ args.lc > 65535 =>
                  \/ n = 0
                  \/ SubSeq(cmd.mCommand, 5, 7) = <<0, 255, 255>>
            /\ args.le > 65536 =>
                  \/ n = 0
                  \/ SubSeq(cmd.mCommand, n - 1, n) = <<0, 0>>

----------------------------------------------------------------------------
(* Properties of the objects' iterators, checked under SpecLife *)

\* C6: dataBegin() and dataEnd() of every live CommandApdu designate positions
\* inside the buffer that this same object owns, after any sequence of
\* construct, copy-construct, copy-assign, fill and destroy.
C6_IteratorsIntoOwnBuffer ==
    \A o \in DOMAIN objs :
        objs[o].live =>
            /\ objs[o].mDataBegin.blk = objs[o].buf
            /\ objs[o].mDataEnd.blk = objs[o].buf
            /\ heap[objs[o].buf].used
            /\ 0 <= objs[o].mDataBegin.off
            /\ objs[o].mDataBegin.off <= objs[o].mDataEnd.off
            /\ objs[o].mDataEnd.off <= Len(heap[objs[o].buf].bytes)

----------------------------------------------------------------------------
(* Properties of ResponseApdu, checked under SpecResp *)

\* C7: for a response of length >= 2, remainingBytes() returns sw2 as the
\* unsigned byte value 0..255 if sw1 = 0x61, and 0 otherwise.
C7_RemainingBytesIsSw2 ==
    (viewed /\ Len(mData) >= 2 /\ last.op = "remainingBytes") =>
        last.val = (IF mData[Len(mData) - 1] = 97 THEN mData[Len(mData)] ELSE 0)

\* C8: ok() is true iff the sequence has n >= 2 bytes; then
\* status() = (byte[n-2] << 8) | byte[n-1], dataSize() = n - 2 and
\* [dataBegin(), dataEnd()) is the first n - 2 bytes.
C8_Answers ==
    viewed =>
        LET n == Len(mData)
        IN  /\ last.op = "ok" => (last.val <=> n >= 2)
            /\ (n >= 2 /\ last.op = "status") =>
                  last.val = mData[n - 1] * 256 + mData[n]
            /\ (n >= 2 /\ last.op = "dataSize") => last.val = n - 2
            /\ (n >= 2 /\ last.op = "dataBegin") => last.val = 0
            /\ (n >= 2 /\ last.op = "dataEnd") => last.val = n - 2
            /\ n >= 2 => rData(mData) = SubSeq(mData, 1, n - 2)

\* C8, continued: no query modifies the wrapped sequence.
C8_ResponseView == []C8_Answers /\ [][(viewed /\ viewed') => mData' = mData]_vars

\* a payload of two bytes in front of the status word 0x61 0x05
C8_Witness ==
    /\ viewed
    /\ mData = <<1, 2, 97, 5>>
    /\ last = [op |-> "dataSize", val |-> 2]
    /\ rData(mData) = <<1, 2>>

\* C9: for a response of length >= 2: isWarning() iff sw1 is 0x62 or 0x63,
\* isExecutionError() iff 0x64 <= sw1 <= 0x66, isCheckingError() iff
\* 0x67 <= sw1 <= 0x6F, isError() iff 0x64 <= sw1 <= 0x6F; at most one of
\* isWarning, isExecutionError, isCheckingError and sw1 = 0x61 holds, and none
\* of them for the status word 0x9000.
C9_Classification ==
    (viewed /\ Len(mData) >= 2) =>
        LET b == mData[Len(mData) - 1]
        IN  /\ last.op = "isWarning" => (last.val <=> b \in {98, 99})
            /\ last.op = "isExecutionError" => (last.val <=> b \in 100..102)
            /\ last.op = "isCheckingError" => (last.val <=> b \in 103..111)
            /\ last.op = "isError" => (last.val <=> b \in 100..111)
            /\ LET g == <<0, 0>>
                   w == isWarning(mData, g)
                   x == isExecutionError(mData, g)
                   c == isCheckingError(mData, g)
                   m == b = 97
               IN  /\ ~(w /\ x) /\ ~(w /\ c) /\ ~(w /\ m)
                   /\ ~(x /\ c) /\ ~(x /\ m) /\ ~(c /\ m)
                   /\ (b = 144 /\ mData[Len(mData)] = 0) =>
                          ~(w \/ x \/ c \/ m \/ isError(mData, g))

\* the last checking-error value of sw1, 0x6F, classified
C9_Witness ==
    /\ viewed
    /\ Len(mData) = 2 /\ mData[1] = 111
    /\ last = [op |-> "isCheckingError", val |-> TRUE]

====
